---------------------------- MODULE Spec2Model ----------------------------
(***************************************************************************)
(* A model of the numa_maps parser (src/src/lib.rs): Property::from_str,   *)
(* Range::parse, Range::normalize and NumaMap::from_file.                  *)
(*                                                                         *)
(* Text is modelled as sequences of one-character strings, so that the     *)
(* tokenizer, the '=' split and the integer parsers work on characters as  *)
(* the code does.  usize is modelled with UsizeBits bits; arithmetic keeps *)
(* that width.                                                             *)
(***************************************************************************)
EXTENDS Integers, Sequences, FiniteSets, TLC

\* ------------------------------------------------------------------ bounds
\* Width of usize in the model (the targets of the crate have 32 or 64).
UsizeBits == 16
\* Longest property list drawn from CorePool for a single-line source.
MaxProps == 3
\* Longest property list drawn from the whole PropPool.
MaxWideProps == 2
\* Longest multi-line source.
MaxLines == 3
\* Number of consecutive normalize calls the caller makes on one range.
MaxCalls == 2

\* usize::MAX + 1
Word == 2 ^ UsizeBits

\* ------------------------------------------------------------- characters
\* The characters the model's inputs are written with, in ASCII order; the
\* position of a character orders it as its byte value does.
Ascii ==
    << "\t", " ", "+", "-", ".", "/",
       "0", "1", "2", "3", "4", "5", "6", "7", "8", "9", "=",
       "A", "B", "C", "D", "E", "F", "N", "_",
       "a", "b", "c", "d", "e", "f", "g", "h", "i", "j", "k", "l", "m",
       "n", "o", "p", "q", "r", "s", "t", "u", "v", "w", "x", "y", "z" >>

CharCode(c) == CHOOSE i \in 1..Len(Ascii) : Ascii[i] = c

\* char::is_whitespace, on the characters above
IsWhitespace(c) == c \in {" ", "\t"}

\* char::to_digit(radix): the digit's value, or -1
ToDigit(c, radix) ==
    LET v == CASE c = "0" -> 0 [] c = "1" -> 1 [] c = "2" -> 2 [] c = "3" -> 3
               [] c = "4" -> 4 [] c = "5" -> 5 [] c = "6" -> 6 [] c = "7" -> 7
               [] c = "8" -> 8 [] c = "9" -> 9
               [] c \in {"a", "A"} -> 10 [] c \in {"b", "B"} -> 11
               [] c \in {"c", "C"} -> 12 [] c \in {"d", "D"} -> 13
               [] c \in {"e", "E"} -> 14 [] c \in {"f", "F"} -> 15
               [] OTHER -> -1
    IN  IF v >= 0 /\ v < radix THEN v ELSE -1

\* Lexicographic comparison of two character sequences by byte value:
\* -1, 0 or 1 (Ord for str / OsStr).
RECURSIVE StrCmp(_, _)
StrCmp(a, b) ==
    IF a = <<>> /\ b = <<>> THEN 0
    ELSE IF a = <<>> THEN -1
    ELSE IF b = <<>> THEN 1
    ELSE IF CharCode(Head(a)) < CharCode(Head(b)) THEN -1
    ELSE IF CharCode(Head(a)) > CharCode(Head(b)) THEN 1
    ELSE StrCmp(Tail(a), Tail(b))

\* ---------------------------------------------------------------- parsing
\* usize::from_str_radix(s, radix) and str::parse::<usize>() (radix 10):
\* an empty string, a lone sign, a '-', a non-digit and a value above
\* usize::MAX are errors; one leading '+' is accepted.
RECURSIVE ParseDigits(_, _, _)
ParseDigits(s, radix, acc) ==
    IF s = <<>> THEN [ok |-> TRUE, val |-> acc]
    ELSE LET d == ToDigit(Head(s), radix) IN
         IF d < 0 THEN [ok |-> FALSE, val |-> 0]
         ELSE IF acc * radix + d >= Word THEN [ok |-> FALSE, val |-> 0]
         ELSE ParseDigits(Tail(s), radix, acc * radix + d)

ParseUsize(s, radix) ==
    IF s = <<>> THEN [ok |-> FALSE, val |-> 0]
    ELSE IF Len(s) = 1 /\ Head(s) \in {"+", "-"} THEN [ok |-> FALSE, val |-> 0]
    ELSE IF Head(s) = "+" THEN ParseDigits(Tail(s), radix, 0)
    ELSE ParseDigits(s, radix, 0)

\* str::split_whitespace: the maximal runs of non-whitespace characters
RECURSIVE SplitFrom(_, _, _)
SplitFrom(line, cur, acc) ==
    IF line = <<>> THEN (IF cur = <<>> THEN acc ELSE Append(acc, cur))
    ELSE IF IsWhitespace(Head(line))
         THEN SplitFrom(Tail(line), <<>>, IF cur = <<>> THEN acc ELSE Append(acc, cur))
         ELSE SplitFrom(Tail(line), Append(cur, Head(line)), acc)

SplitWhitespace(line) == SplitFrom(line, <<>>, <<>>)

\* str::find('='): the position of the first '=', or 0
FindEq(s) ==
    IF \E i \in 1..Len(s) : s[i] = "="
    THEN CHOOSE i \in 1..Len(s) : s[i] = "=" /\ \A j \in 1..(i - 1) : s[j] # "="
    ELSE 0

\* --------------------------------------------------------------- Property
\* enum Property.  A value is a record: tag is the variant, path the payload
\* of File, node and val the payloads of N (node, size) and val the payload
\* of the counters and of Kernelpagesize; unused fields are <<>> and 0.
File(p) == [tag |-> "File", path |-> p, node |-> 0, val |-> 0]
N(node, pages) == [tag |-> "N", path |-> <<>>, node |-> node, val |-> pages]
Heap == [tag |-> "Heap", path |-> <<>>, node |-> 0, val |-> 0]
Stack == [tag |-> "Stack", path |-> <<>>, node |-> 0, val |-> 0]
Huge == [tag |-> "Huge", path |-> <<>>, node |-> 0, val |-> 0]
Anon(pages) == [tag |-> "Anon", path |-> <<>>, node |-> 0, val |-> pages]
Dirty(pages) == [tag |-> "Dirty", path |-> <<>>, node |-> 0, val |-> pages]
Mapped(pages) == [tag |-> "Mapped", path |-> <<>>, node |-> 0, val |-> pages]
MapMax(pages) == [tag |-> "MapMax", path |-> <<>>, node |-> 0, val |-> pages]
SwapCache(pages) == [tag |-> "SwapCache", path |-> <<>>, node |-> 0, val |-> pages]
Active(pages) == [tag |-> "Active", path |-> <<>>, node |-> 0, val |-> pages]
Writeback(pages) == [tag |-> "Writeback", path |-> <<>>, node |-> 0, val |-> pages]
Kernelpagesize(sz) == [tag |-> "Kernelpagesize", path |-> <<>>, node |-> 0, val |-> sz]

\* The variants in declaration order: derive(Ord) orders by it first.
Variants ==
    << "File", "N", "Heap", "Stack", "Huge", "Anon", "Dirty", "Mapped",
       "MapMax", "SwapCache", "Active", "Writeback", "Kernelpagesize" >>

Discriminant(p) == CHOOSE i \in 1..Len(Variants) : Variants[i] = p.tag

\* Path::components on a Unix path: RootDir (1) for a leading '/', then the
\* pieces between '/': empty pieces and "." are skipped, except a leading "."
\* of a relative path, which is CurDir (2); ".." is ParentDir (3); any other
\* piece is Normal (4).  The kinds are numbered in Component's order.
RECURSIVE SplitSlash(_, _, _)
SplitSlash(p, cur, acc) ==
    IF p = <<>> THEN Append(acc, cur)
    ELSE IF Head(p) = "/" THEN SplitSlash(Tail(p), <<>>, Append(acc, cur))
    ELSE SplitSlash(Tail(p), Append(cur, Head(p)), acc)

Components(p) ==
    LET hasRoot == p # <<>> /\ Head(p) = "/"
        pieces == IF p = <<>> THEN <<>> ELSE SplitSlash(p, <<>>, <<>>)
        Comp(i) == IF pieces[i] = <<".">> THEN [kind |-> 2, name |-> <<>>]
                   ELSE IF pieces[i] = <<".", ".">> THEN [kind |-> 3, name |-> <<>>]
                   ELSE [kind |-> 4, name |-> pieces[i]]
        Kept(i) == /\ pieces[i] # <<>>
                   /\ (pieces[i] = <<".">> => (i = 1 /\ ~hasRoot))
        RECURSIVE Collect(_)
        Collect(i) == IF i > Len(pieces) THEN <<>>
                      ELSE IF Kept(i) THEN <<Comp(i)>> \o Collect(i + 1)
                      ELSE Collect(i + 1)
    IN  (IF hasRoot THEN << [kind |-> 1, name |-> <<>>] >> ELSE <<>>) \o Collect(1)

\* Ord for Path: the component sequences compared lexicographically.
RECURSIVE ComponentsCmp(_, _)
ComponentsCmp(a, b) ==
    IF a = <<>> /\ b = <<>> THEN 0
    ELSE IF a = <<>> THEN -1
    ELSE IF b = <<>> THEN 1
    ELSE IF Head(a).kind < Head(b).kind THEN -1
    ELSE IF Head(a).kind > Head(b).kind THEN 1
    ELSE IF StrCmp(Head(a).name, Head(b).name) # 0
         THEN StrCmp(Head(a).name, Head(b).name)
    ELSE ComponentsCmp(Tail(a), Tail(b))

PathCmp(a, b) == ComponentsCmp(Components(a), Components(b))

IntCmp(a, b) == IF a < b THEN -1 ELSE IF a > b THEN 1 ELSE 0

\* derive(Ord) for Property: the variant, then the payload field by field.
PropertyCmp(a, b) ==
    IF Discriminant(a) # Discriminant(b)
    THEN IntCmp(Discriminant(a), Discriminant(b))
    ELSE IF a.tag = "File" THEN PathCmp(a.path, b.path)
    ELSE IF a.node # b.node THEN IntCmp(a.node, b.node)
    ELSE IntCmp(a.val, b.val)

\* derive(PartialEq) for Property (PathBuf's == compares components).
PropertyEq(a, b) == PropertyCmp(a, b) = 0

\* Property::page_size
page_size(p) ==
    IF p.tag = "Kernelpagesize" THEN [some |-> TRUE, val |-> p.val]
    ELSE [some |-> FALSE, val |-> 0]

\* The keys of Property::from_str's table, as character sequences.
Key_file == <<"f", "i", "l", "e">>
Key_heap == <<"h", "e", "a", "p">>
Key_stack == <<"s", "t", "a", "c", "k">>
Key_huge == <<"h", "u", "g", "e">>
Key_anon == <<"a", "n", "o", "n">>
Key_dirty == <<"d", "i", "r", "t", "y">>
Key_mapped == <<"m", "a", "p", "p", "e", "d">>
Key_mapmax == <<"m", "a", "p", "m", "a", "x">>
Key_swapcache == <<"s", "w", "a", "p", "c", "a", "c", "h", "e">>
Key_active == <<"a", "c", "t", "i", "v", "e">>
Key_writeback == <<"w", "r", "i", "t", "e", "b", "a", "c", "k">>
Key_kernelpagesize_kB == <<"k", "e", "r", "n", "e", "l", "p", "a", "g", "e", "s", "i", "z", "e", "_", "k", "B">>

\* The Err(String) of Property::from_str; the message is not modelled.
PropertyErr == [ok |-> FALSE, prop |-> Heap]

PropertyOk(p) == [ok |-> TRUE, prop |-> p]

\* val.parse().map(variant): a counter from a base-10 value
ParseCounter(val, tag) ==
    LET r == ParseUsize(val, 10) IN
    IF r.ok THEN PropertyOk([tag |-> tag, path |-> <<>>, node |-> 0, val |-> r.val])
    ELSE PropertyErr

\* sz << 10 on usize: the bits shifted out of the word are lost, in every
\* build (the shift amount is below the width, so nothing is checked).
Shl10(sz) == (sz * 1024) % Word

\* impl FromStr for Property: the token is split at its first '=', and the
\* arms are tried in the order of the match.
PropertyFromStr(s) ==
    LET index == FindEq(s)
        hasVal == index > 0
        key == IF hasVal THEN SubSeq(s, 1, index - 1) ELSE s
        val == IF hasVal THEN SubSeq(s, index + 1, Len(s)) ELSE <<>>
    IN  IF hasVal /\ key # <<>> /\ Head(key) = "N"
        THEN LET node == ParseUsize(Tail(key), 10)
                 count == ParseUsize(val, 10)
             IN  IF node.ok /\ count.ok THEN PropertyOk(N(node.val, count.val))
                 ELSE PropertyErr
        ELSE IF key = Key_file /\ hasVal THEN PropertyOk(File(val))
        ELSE IF key = Key_heap THEN PropertyOk(Heap)
        ELSE IF key = Key_stack THEN PropertyOk(Stack)
        ELSE IF key = Key_huge THEN PropertyOk(Huge)
        ELSE IF key = Key_anon /\ hasVal THEN ParseCounter(val, "Anon")
        ELSE IF key = Key_dirty /\ hasVal THEN ParseCounter(val, "Dirty")
        ELSE IF key = Key_mapped /\ hasVal THEN ParseCounter(val, "Mapped")
        ELSE IF key = Key_mapmax /\ hasVal THEN ParseCounter(val, "MapMax")
        ELSE IF key = Key_swapcache /\ hasVal THEN ParseCounter(val, "SwapCache")
        ELSE IF key = Key_active /\ hasVal THEN ParseCounter(val, "Active")
        ELSE IF key = Key_writeback /\ hasVal THEN ParseCounter(val, "Writeback")
        ELSE IF key = Key_kernelpagesize_kB /\ hasVal
             THEN LET sz == ParseUsize(val, 10) IN
                  IF sz.ok THEN PropertyOk(Kernelpagesize(Shl10(sz.val)))
                  ELSE PropertyErr
        ELSE PropertyErr

\* ------------------------------------------------------------------ Range
\* struct Range
MkRange(address, policy, properties) ==
    [address |-> address, policy |-> policy, properties |-> properties]

\* Option<Range>
NoRange == [some |-> FALSE, range |-> MkRange(0, <<>>, <<>>)]

SomeRange(r) == [some |-> TRUE, range |-> r]

\* A faulty variant of ParseProperties: the loop ends at the first token
\* that does not parse.
RECURSIVE ParseProperties_StopsAtError(_, _, _)
ParseProperties_StopsAtError(parts, i, properties) ==
    IF i > Len(parts) THEN properties
    ELSE LET r == PropertyFromStr(parts[i]) IN
         IF r.ok THEN ParseProperties_StopsAtError(parts, i + 1, Append(properties, r.prop))
         ELSE properties

\* The loop of Range::parse over the tokens from position i on: a token that
\* parses is pushed, one that does not is reported and the loop goes on.
RECURSIVE ParseProperties(_, _, _)
ParseProperties(parts, i, properties) ==
    IF i > Len(parts) THEN properties
    ELSE LET r == PropertyFromStr(parts[i]) IN
         ParseProperties(parts, i + 1,
                         IF r.ok THEN Append(properties, r.prop) ELSE properties)

\* A faulty variant of RangeParse: the address is parsed in base 10.
RangeParse_Decimal(line) ==
    LET parts == SplitWhitespace(line) IN
    IF Len(parts) = 0 THEN NoRange
    ELSE LET address == ParseUsize(parts[1], 10) IN
         IF ~address.ok THEN NoRange
         ELSE IF Len(parts) < 2 THEN NoRange
         ELSE SomeRange(MkRange(address.val, parts[2],
                                ParseProperties(parts, 3, <<>>)))

\* Range::parse
RangeParse(line) ==
    LET parts == SplitWhitespace(line) IN
    IF Len(parts) = 0 THEN NoRange
    ELSE LET address == ParseUsize(parts[1], 16) IN
         IF ~address.ok THEN NoRange
         ELSE IF Len(parts) < 2 THEN NoRange
         ELSE SomeRange(MkRange(address.val, parts[2],
                                ParseProperties(parts, 3, <<>>)))

\* The low UsizeBits bits of a * b, for a and b below Word.  The product is
\* summed from the two halves of b, which keeps every intermediate value
\* below 2^31.
WrappingMul(a, b) ==
    (((a * (b \div 256)) % Word) * 256 + a * (b % 256)) % Word

\* pages * page_size on usize.  A product above usize::MAX panics in a build
\* with overflow checks (the dev profile) and wraps in one without (the
\* release profile).
Mul(pages, size, overflowChecks) ==
    IF pages = 0 \/ size <= (Word - 1) \div pages
    THEN [panic |-> FALSE, val |-> pages * size]
    ELSE IF overflowChecks THEN [panic |-> TRUE, val |-> 0]
    ELSE [panic |-> FALSE, val |-> WrappingMul(pages, size)]

\* A faulty variant of PropertyNormalize: the page size property is kept.
PropertyNormalize_KeepsPageSize(p, size, overflowChecks) ==
    IF p.tag \in {"File", "Heap", "Stack", "Huge", "MapMax", "Kernelpagesize"}
    THEN [kind |-> "Some", prop |-> p]
    ELSE LET m == Mul(p.val, size, overflowChecks) IN
         IF m.panic THEN [kind |-> "Panic", prop |-> p]
         ELSE [kind |-> "Some", prop |-> [p EXCEPT !.val = m.val]]

\* Property::normalize: Some(property), None for the page size property, or
\* a panic of the multiplication.
PropertyNormalize(p, size, overflowChecks) ==
    IF p.tag \in {"File", "Heap", "Stack", "Huge", "MapMax"}
    THEN [kind |-> "Some", prop |-> p]
    ELSE IF p.tag = "Kernelpagesize" THEN [kind |-> "None", prop |-> p]
    ELSE LET m == Mul(p.val, size, overflowChecks) IN
         IF m.panic THEN [kind |-> "Panic", prop |-> p]
         ELSE [kind |-> "Some", prop |-> [p EXCEPT !.val = m.val]]

\* A faulty variant of FindPageSize: the page size of the last property
\* that has one.
RECURSIVE FindPageSize_Last(_)
FindPageSize_Last(properties) ==
    IF properties = <<>> THEN [some |-> FALSE, val |-> 0]
    ELSE IF FindPageSize_Last(Tail(properties)).some
         THEN FindPageSize_Last(Tail(properties))
    ELSE page_size(Head(properties))

\* self.properties.iter().find_map(Property::page_size): the page size of
\* the first property that has one.
RECURSIVE FindPageSize(_)
FindPageSize(properties) ==
    IF properties = <<>> THEN [some |-> FALSE, val |-> 0]
    ELSE IF page_size(Head(properties)).some THEN page_size(Head(properties))
    ELSE FindPageSize(Tail(properties))

\* Vec::sort: a stable sort by PropertyCmp (insertion after the equal ones).
RECURSIVE Insert(_, _)
Insert(sorted, p) ==
    IF sorted = <<>> THEN <<p>>
    ELSE IF PropertyCmp(p, Head(sorted)) < 0 THEN <<p>> \o sorted
    ELSE <<Head(sorted)>> \o Insert(Tail(sorted), p)

RECURSIVE SortFrom(_, _)
SortFrom(properties, sorted) ==
    IF properties = <<>> THEN sorted
    ELSE SortFrom(Tail(properties), Insert(sorted, Head(properties)))

\* A faulty variant of Sort: the list is left in encounter order.
Sort_Omitted(properties) == properties

Sort(properties) == SortFrom(properties, <<>>)

\* drain(..).filter_map(|p| Property::normalize(p, page_size)).collect():
\* the properties are normalized in order; a panic ends the loop.
RECURSIVE FilterMap(_, _, _, _)
FilterMap(properties, size, overflowChecks, out) ==
    IF properties = <<>> THEN [panic |-> FALSE, properties |-> out]
    ELSE LET r == PropertyNormalize(Head(properties), size, overflowChecks) IN
         IF r.kind = "Panic" THEN [panic |-> TRUE, properties |-> <<>>]
         ELSE FilterMap(Tail(properties), size, overflowChecks,
                        IF r.kind = "Some" THEN Append(out, r.prop) ELSE out)

\* A faulty variant of RangeNormalize: a list without a page size is sorted
\* too.
RangeNormalize_SortsAlways(range, overflowChecks) ==
    LET size == FindPageSize(range.properties) IN
    IF ~size.some
    THEN [panic |-> FALSE, range |-> [range EXCEPT !.properties = Sort(@)]]
    ELSE LET r == FilterMap(range.properties, size.val, overflowChecks, <<>>) IN
         IF r.panic THEN [panic |-> TRUE, range |-> [range EXCEPT !.properties = <<>>]]
         ELSE [panic |-> FALSE,
               range |-> [range EXCEPT !.properties = Sort(r.properties)]]

\* Range::normalize.  When the multiplication panics the Drain is dropped
\* while the stack unwinds, which leaves self.properties empty.
RangeNormalize(range, overflowChecks) ==
    LET size == FindPageSize(range.properties) IN
    IF ~size.some THEN [panic |-> FALSE, range |-> range]
    ELSE LET r == FilterMap(range.properties, size.val, overflowChecks, <<>>) IN
         IF r.panic THEN [panic |-> TRUE, range |-> [range EXCEPT !.properties = <<>>]]
         ELSE [panic |-> FALSE,
               range |-> [range EXCEPT !.properties = Sort(r.properties)]]

\* ----------------------------------------------------------------- inputs
\* Property tokens.  CorePool holds the tokens whose order and repetition
\* matter to normalize; WidePool covers the rest of from_str's table.
Tok_anon5 == <<"a", "n", "o", "n", "=", "5">>
Tok_N0_5 == <<"N", "0", "=", "5">>
Tok_mapmax3 == <<"m", "a", "p", "m", "a", "x", "=", "3">>
Tok_kps4 == <<"k", "e", "r", "n", "e", "l", "p", "a", "g", "e", "s", "i", "z", "e", "_", "k", "B", "=", "4">>
Tok_kps8 == <<"k", "e", "r", "n", "e", "l", "p", "a", "g", "e", "s", "i", "z", "e", "_", "k", "B", "=", "8">>
Tok_dirtyMax == <<"d", "i", "r", "t", "y", "=", "6", "5", "5", "3", "5">>
Tok_bogus == <<"b", "o", "g", "u", "s">>
Tok_fileA == <<"f", "i", "l", "e", "=", "/", "a">>
Tok_fileA2 == <<"f", "i", "l", "e", "=", "/", "/", "a">>
Tok_fileB == <<"f", "i", "l", "e", "=", "b">>
Tok_heap == <<"h", "e", "a", "p">>
Tok_stackV == <<"s", "t", "a", "c", "k", "=", "1">>
Tok_huge == <<"h", "u", "g", "e">>
Tok_mapped2 == <<"m", "a", "p", "p", "e", "d", "=", "2">>
Tok_swapcache1 == <<"s", "w", "a", "p", "c", "a", "c", "h", "e", "=", "1">>
Tok_active1 == <<"a", "c", "t", "i", "v", "e", "=", "1">>
Tok_writeback2 == <<"w", "r", "i", "t", "e", "b", "a", "c", "k", "=", "2">>
Tok_N1_7 == <<"N", "1", "=", "7">>
Tok_Nx == <<"N", "x", "=", "1">>
Tok_anonX == <<"a", "n", "o", "n", "=", "x">>
Tok_anonNoVal == <<"a", "n", "o", "n">>
Tok_anonPlus == <<"a", "n", "o", "n", "=", "+", "6">>
Tok_kps64 == <<"k", "e", "r", "n", "e", "l", "p", "a", "g", "e", "s", "i", "z", "e", "_", "k", "B", "=", "6", "4">>
Tok_dirtyBig == <<"d", "i", "r", "t", "y", "=", "9", "9", "9", "9", "9", "9", "9", "9">>

CorePool ==
    { Tok_anon5, Tok_N0_5, Tok_mapmax3, Tok_kps4, Tok_kps8, Tok_dirtyMax, Tok_bogus }

WidePool ==
    { Tok_fileA, Tok_fileA2, Tok_fileB, Tok_heap, Tok_stackV,
      Tok_huge, Tok_mapped2, Tok_swapcache1, Tok_active1, Tok_writeback2,
      Tok_N1_7, Tok_Nx, Tok_anonX, Tok_anonNoVal, Tok_anonPlus,
      Tok_kps64, Tok_dirtyBig }

PropPool == CorePool \cup WidePool

\* The sequences over S of length at most n
SeqsUpTo(S, n) == UNION { [1..k -> S] : k \in 0..n }

\* The address and policy the property lines start with
Tok_addr == <<"7", "f">>
Tok_policy == <<"d", "e", "f", "a", "u", "l", "t">>

\* tokens joined by single spaces
RECURSIVE JoinTokens(_)
JoinTokens(tokens) ==
    IF tokens = <<>> THEN <<>>
    ELSE IF Len(tokens) = 1 THEN Head(tokens)
    ELSE Head(tokens) \o <<" ">> \o JoinTokens(Tail(tokens))

\* Lines "7f default <property tokens>"
PropLines ==
    { JoinTokens(<<Tok_addr, Tok_policy>> \o props) :
        props \in SeqsUpTo(CorePool, MaxProps) \cup SeqsUpTo(PropPool, MaxWideProps) }

\* Lines that vary the address, the policy and the whitespace; the last is
\* the line of test_normalize.
Line_Hex == <<"7", "f", " ", "d", "e", "f", "a", "u", "l", "t">>
Line_HexUpper == <<"7", "F", " ", "i", "n", "t", "e", "r", "l", "e", "a", "v", "e">>
Line_HexPlus == <<"+", "7", "f", " ", "d", "e", "f", "a", "u", "l", "t">>
Line_HexMinus == <<"-", "7", "f", " ", "d", "e", "f", "a", "u", "l", "t">>
Line_NotHex == <<"z", "z", " ", "d", "e", "f", "a", "u", "l", "t">>
Line_Prefixed == <<"0", "x", "7", "f", " ", "d", "e", "f", "a", "u", "l", "t">>
Line_Empty == <<>>
Line_Blank == <<" ", " ", "\t", " ">>
Line_NoPolicy == <<"7", "f">>
Line_Spaced == <<" ", "\t", "7", "f", "\t", "d", "e", "f", "a", "u", "l", "t", " ", " ", " ", "a", "n", "o", "n", "=", "5", " ">>
Line_TooBig == <<"f", "f", "f", "f", "f", " ", "d", "e", "f", "a", "u", "l", "t">>
Line_Words == <<"d", "e", "a", "d", " ", "b", "e", "e", "f", " ", "h", "e", "a", "p">>
Line_Test == <<"7", "f", " ", "d", "e", "f", "a", "u", "l", "t", " ", "a", "n", "o", "n", "=", "5", " ", "d", "i", "r", "t", "y", "=", "5", " ", "a", "c", "t", "i", "v", "e", "=", "1", " ", "N", "0", "=", "5", " ", "k", "e", "r", "n", "e", "l", "p", "a", "g", "e", "s", "i", "z", "e", "_", "k", "B", "=", "4">>

HeaderLines ==
    { Line_Hex, Line_HexUpper, Line_HexPlus, Line_HexMinus,
      Line_NotHex, Line_Prefixed, Line_Empty, Line_Blank,
      Line_NoPolicy, Line_Spaced, Line_TooBig, Line_Words,
      Line_Test }

\* One item of BufRead::lines(): Ok(line) or Err(io::Error)
ReadOk(line) == [err |-> FALSE, line |-> line]

ReadErr == [err |-> TRUE, line |-> <<>>]

\* The path handed to from_file: whether File::open succeeds on it, and what
\* reading its lines yields.
Readable(reads) == [exists |-> TRUE, reads |-> reads]

Unopenable == [exists |-> FALSE, reads |-> <<>>]

\* Lines of the multi-line sources
Line_Second == <<"8", "0", " ">> \o Tok_policy
Line_Third == <<"8", "1", " ">> \o Tok_policy \o <<" ">> \o Tok_kps4 \o <<" ">> \o Tok_anon5

LoadReads ==
    { ReadOk(Line_Second), ReadOk(Line_Third), ReadOk(Line_NotHex),
      ReadOk(Line_NoPolicy), ReadOk(Line_Empty), ReadErr }

Sources ==
    {Unopenable}
        \cup { Readable(<<ReadOk(l)>>) : l \in PropLines \cup HeaderLines }
        \cup { Readable(reads) : reads \in SeqsUpTo(LoadReads, MaxLines) }

\* ------------------------------------------------------------------ state
VARIABLES
    source,          \* the file from_file is called on
    overflowChecks,  \* the build: whether arithmetic overflow panics
    pc,              \* "open", "lines", "returned" or "panicked"
    pos,             \* the lines from_file has consumed
    ranges,          \* from_file's local Vec<Range>
    ret,             \* from_file's result: "none" yet, "Ok" or "Err"
    map,             \* NumaMap::ranges of the returned map
    lastCall,        \* the range the caller normalized last (0: none yet)
    streak           \* the consecutive normalize calls on that range

vars == <<source, overflowChecks, pc, pos, ranges, ret, map, lastCall, streak>>

Init ==
    /\ source \in Sources
    /\ overflowChecks \in BOOLEAN
    /\ pc = "open"
    /\ pos = 0
    /\ ranges = <<>>
    /\ ret = "none"
    /\ map = <<>>
    /\ lastCall = 0
    /\ streak = 0

\* File::open(path)?
Open ==
    /\ pc = "open"
    /\ IF source.exists
       THEN pc' = "lines" /\ ret' = ret
       ELSE pc' = "returned" /\ ret' = "Err"
    /\ UNCHANGED <<source, overflowChecks, pos, ranges, map, lastCall, streak>>

\* A faulty variant of ReadLine: the loop ends at the first line that yields
\* no Range.
ReadLine_StopsAtBadLine ==
    /\ pc = "lines"
    /\ pos < Len(source.reads)
    /\ LET item == source.reads[pos + 1] IN
       IF item.err
       THEN /\ pc' = "returned"
            /\ ret' = "Err"
            /\ ranges' = <<>>
            /\ pos' = pos + 1
       ELSE /\ LET r == RangeParse(item.line) IN
               /\ ranges' = IF r.some THEN Append(ranges, r.range) ELSE ranges
               /\ pos' = IF r.some THEN pos + 1 ELSE Len(source.reads)
            /\ UNCHANGED <<pc, ret>>
    /\ UNCHANGED <<source, overflowChecks, map, lastCall, streak>>

\* A faulty variant of ReadLine: a line whose read fails is skipped.
ReadLine_SkipsFailedReads ==
    /\ pc = "lines"
    /\ pos < Len(source.reads)
    /\ pos' = pos + 1
    /\ LET item == source.reads[pos + 1] IN
       IF item.err
       THEN UNCHANGED <<pc, ret, ranges>>
       ELSE /\ LET r == RangeParse(item.line) IN
               ranges' = IF r.some THEN Append(ranges, r.range) ELSE ranges
            /\ UNCHANGED <<pc, ret>>
    /\ UNCHANGED <<source, overflowChecks, map, lastCall, streak>>

\* One iteration of `for line in reader.lines()`: an Err item returns the
\* error (the local ranges are dropped); an Ok line is parsed and pushed when
\* it yields a Range.
ReadLine ==
    /\ pc = "lines"
    /\ pos < Len(source.reads)
    /\ pos' = pos + 1
    /\ LET item == source.reads[pos + 1] IN
       IF item.err
       THEN /\ pc' = "returned"
            /\ ret' = "Err"
            /\ ranges' = <<>>
       ELSE /\ LET r == RangeParse(item.line) IN
               ranges' = IF r.some THEN Append(ranges, r.range) ELSE ranges
            /\ UNCHANGED <<pc, ret>>
    /\ UNCHANGED <<source, overflowChecks, map, lastCall, streak>>

\* Ok(Self { ranges }) once the lines are exhausted
Return ==
    /\ pc = "lines"
    /\ pos = Len(source.reads)
    /\ pc' = "returned"
    /\ ret' = "Ok"
    /\ map' = ranges
    /\ ranges' = <<>>
    /\ UNCHANGED <<source, overflowChecks, pos, lastCall, streak>>

\* The caller's map.ranges[i].normalize()
Normalize(i) ==
    /\ pc = "returned"
    /\ ret = "Ok"
    /\ i \in 1..Len(map)
    /\ lastCall = i => streak < MaxCalls
    /\ LET r == RangeNormalize(map[i], overflowChecks) IN
       /\ map' = [map EXCEPT ![i] = r.range]
       /\ pc' = IF r.panic THEN "panicked" ELSE pc
    /\ lastCall' = i
    /\ streak' = IF lastCall = i THEN streak + 1 ELSE 1
    /\ UNCHANGED <<source, overflowChecks, pos, ranges, ret>>

Next ==
    \/ Open
    \/ ReadLine
    \/ Return
    \/ \E i \in 1..Len(map) : Normalize(i)

Spec == Init /\ [][Next]_vars

\* ------------------------------------------------- vocabulary of the claims
\* What the properties below are stated with.  The step the caller's
\* normalize call on range i makes:
NormalizeStep(i) ==
    /\ lastCall' = i
    /\ <<lastCall', streak'>> # <<lastCall, streak>>

IsPageSize(p) == p.tag = "Kernelpagesize"

HasPageSize(properties) ==
    \E k \in 1..Len(properties) : IsPageSize(properties[k])

PageSizeCount(properties) ==
    Cardinality({ k \in 1..Len(properties) : IsPageSize(properties[k]) })

\* The byte value of the first Kernelpagesize entry
FirstPageSize(properties) ==
    LET first == CHOOSE k \in 1..Len(properties) :
                     /\ IsPageSize(properties[k])
                     /\ \A j \in 1..(k - 1) : ~IsPageSize(properties[j])
    IN  properties[first].val

\* The entries that are not Kernelpagesize, in order
NonPageSize(properties) == SelectSeq(properties, LAMBDA p : ~IsPageSize(p))

Scaled == {"N", "Anon", "Dirty", "Mapped", "SwapCache", "Active", "Writeback"}

\* The entry with its count times P, as a number
TimesExact(p, P) == IF p.tag \in Scaled THEN [p EXCEPT !.val = p.val * P] ELSE p

\* c * P modulo Word: the sum of P shifted by each bit set in c
RECURSIVE ProductModWord(_, _)
ProductModWord(c, P) ==
    IF c = 0 THEN 0
    ELSE ((c % 2) * P + 2 * ProductModWord(c \div 2, P)) % Word

\* The entry with its count times P, in usize arithmetic
TimesWrapped(p, P) ==
    IF p.tag \in Scaled THEN [p EXCEPT !.val = ProductModWord(p.val, P)] ELSE p

Count(s, x) == Cardinality({ k \in 1..Len(s) : s[k] = x })

\* The same entries with the same multiplicities
SameBag(a, b) ==
    /\ Len(a) = Len(b)
    /\ \A k \in 1..Len(a) : Count(a, a[k]) = Count(b, a[k])

\* Vec<Property> == Vec<Property>
ListEq(a, b) ==
    /\ Len(a) = Len(b)
    /\ \A k \in 1..Len(a) : PropertyEq(a[k], b[k])

IsSorted(properties) ==
    \A k \in 1..(Len(properties) - 1) :
        PropertyCmp(properties[k], properties[k + 1]) <= 0

\* The reorderings of a list
Reorderings(properties) ==
    { [k \in 1..Len(properties) |-> properties[f[k]]] :
        f \in Permutations(1..Len(properties)) }

\* A source of the one line "7f default <tokens>"
OneLine(tokens) ==
    Readable(<<ReadOk(JoinTokens(<<Tok_addr, Tok_policy>> \o tokens))>>)

\* The tokens of a line, stated by position: a token starts at a
\* non-whitespace character that begins the line or follows whitespace, and
\* runs up to the end of the line or the next whitespace.
TokenStarts(line) ==
    { i \in 1..Len(line) :
        ~IsWhitespace(line[i]) /\ (i = 1 \/ IsWhitespace(line[i - 1])) }

TokenCount(line) == Cardinality(TokenStarts(line))

Token(line, n) ==
    LET start == CHOOSE i \in TokenStarts(line) :
                     Cardinality({ j \in TokenStarts(line) : j < i }) = n - 1
        stop == CHOOSE j \in start..Len(line) :
                    /\ \A k \in start..j : ~IsWhitespace(line[k])
                    /\ (j = Len(line) \/ IsWhitespace(line[j + 1]))
    IN  SubSeq(line, start, stop)

\* A base-16 unsigned integer that fits usize: hexadecimal digits, after an
\* optional '+', whose number is at most usize::MAX.
HexDigitsOf(t) == IF Len(t) > 1 /\ t[1] = "+" THEN Tail(t) ELSE t

RECURSIVE HexNumber(_)
HexNumber(d) ==
    IF d = <<>> THEN 0
    ELSE HexNumber(SubSeq(d, 1, Len(d) - 1)) * 16 + ToDigit(d[Len(d)], 16)

IsHex(t) ==
    LET d == HexDigitsOf(t) IN
    /\ d # <<>>
    /\ \A k \in 1..Len(d) : ToDigit(d[k], 16) >= 0
    /\ HexNumber(d) < Word

HexValue(t) == HexNumber(HexDigitsOf(t))

HasAddress(line) == TokenCount(line) >= 1 /\ IsHex(Token(line, 1))

HasAddressAndPolicy(line) == TokenCount(line) >= 2 /\ IsHex(Token(line, 1))

\* The step in which from_file reads a line successfully, and that line
ReadStep ==
    /\ pc = "lines"
    /\ pos' = pos + 1
    /\ ~source.reads[pos + 1].err

LineRead == source.reads[pos + 1].line

\* The positions of the source's lines that have an address, and of those
\* that have an address and a policy
AddressLines ==
    { k \in 1..Len(source.reads) :
        ~source.reads[k].err /\ HasAddress(source.reads[k].line) }

AddressPolicyLines ==
    { k \in 1..Len(source.reads) :
        ~source.reads[k].err /\ HasAddressAndPolicy(source.reads[k].line) }

\* The j-th smallest member of a set of positions
Nth(S, j) == CHOOSE k \in S : Cardinality({ m \in S : m < k }) = j - 1

\* ------------------------------------------------------------------ claims
\* C1 (as claimed): normalizing a Range that has a Kernelpagesize entry keeps
\* every other entry exactly once, the counts of N, Anon, Dirty, Mapped,
\* SwapCache, Active and Writeback multiplied by the first page size P, and
\* File, Heap, Stack, Huge and MapMax unchanged.
C1_ScalesByFirstPageSize ==
    [][\A i \in 1..Len(map) :
          (NormalizeStep(i) /\ HasPageSize(map[i].properties)) =>
              LET P == FirstPageSize(map[i].properties)
                  kept == NonPageSize(map[i].properties)
              IN  SameBag(map'[i].properties,
                          [k \in 1..Len(kept) |-> TimesExact(kept[k], P)])]_vars

\* C2: normalizing a Range with no Kernelpagesize entry leaves its
\* properties (entries, values, order), address and policy as they were.
C2_NoPageSizeUnchanged ==
    [][\A i \in 1..Len(map) :
          (NormalizeStep(i) /\ ~HasPageSize(map[i].properties)) =>
              (map' = map /\ pc' = pc)]_vars

\* C2's case: "7f default anon=5 N0=5" was normalized and is still in
\* encounter order, which is not the sorted order.
C2_Witness ==
    /\ source = OneLine(<<Tok_anon5, Tok_N0_5>>)
    /\ lastCall = 1
    /\ map[1].properties = <<Anon(5), N(0, 5)>>
    /\ ~IsSorted(map[1].properties)

\* C3 (as claimed): a load that succeeds yields as many ranges as the
\* source has lines whose first token is a valid base-16 address, in the
\* order of those lines.
C3_OneRangePerAddressLine ==
    ret = "Ok" =>
        /\ Len(map) = Cardinality(AddressLines)
        /\ \A j \in 1..Len(map) :
              map[j].address
                  = HexValue(Token(source.reads[Nth(AddressLines, j)].line, 1))

\* C3 (amended): a load that succeeds yields as many ranges as the source
\* has lines with a valid base-16 address and a second token, in the order
\* of those lines.
C3_OneRangePerAddressPolicyLine ==
    ret = "Ok" =>
        /\ Len(map) = Cardinality(AddressPolicyLines)
        /\ \A j \in 1..Len(map) :
              LET line == source.reads[Nth(AddressPolicyLines, j)].line IN
              /\ map[j].address = HexValue(Token(line, 1))
              /\ map[j].policy = Token(line, 2)

\* C3's case: three lines were loaded, the second has an address and no
\* policy, and the map holds the first and the third, in that order.
C3_Witness ==
    /\ ret = "Ok"
    /\ source = Readable(<<ReadOk(Line_Third), ReadOk(Line_NoPolicy),
                           ReadOk(Line_Second)>>)
    /\ Len(map) = 2
    /\ map[1].address = 129
    /\ map[2].address = 128

\* C4: Range::parse yields no Range exactly when the line lacks a first
\* token that is a base-16 unsigned integer or lacks a second token;
\* otherwise the Range has the first token's value as address and the second
\* token as policy, whatever the other tokens are.
C4_RangeIffAddressAndPolicy ==
    [][ReadStep =>
          IF HasAddressAndPolicy(LineRead)
          THEN /\ Len(ranges') = Len(ranges) + 1
               /\ SubSeq(ranges', 1, Len(ranges)) = ranges
               /\ ranges'[Len(ranges')].address = HexValue(Token(LineRead, 1))
               /\ ranges'[Len(ranges')].policy = Token(LineRead, 2)
          ELSE ranges' = ranges]_vars

\* C4's case: the line "7f" (no policy) gave no Range, and the next line,
\* "81 default kernelpagesize_kB=4 anon=5", gave one.
C4_Witness ==
    /\ pc = "lines"
    /\ pos = 2
    /\ source.reads[1] = ReadOk(Line_NoPolicy)
    /\ source.reads[2] = ReadOk(Line_Third)
    /\ Len(ranges) = 1
    /\ ranges[1].address = 129
    /\ ranges[1].policy = Tok_policy

\* C5: for a line with address and policy, the Range is produced and its
\* properties are those of the tokens from the third on that from_str
\* accepts, in the order of the tokens, repeated keys included; the tokens it
\* rejects are skipped.
C5_PropertiesAreAcceptedTokens ==
    [][(ReadStep /\ HasAddressAndPolicy(LineRead)) =>
          LET accepted == { k \in 3..TokenCount(LineRead) :
                              PropertyFromStr(Token(LineRead, k)).ok }
              properties == ranges'[Len(ranges')].properties
          IN  /\ Len(ranges') = Len(ranges) + 1
              /\ Len(properties) = Cardinality(accepted)
              /\ \A k \in accepted :
                    properties[Cardinality({ j \in accepted : j <= k })]
                        = PropertyFromStr(Token(LineRead, k)).prop]_vars

\* C5's case: "7f default anon=5 bogus anon=5" was parsed to the two Anon
\* properties.
C5_Witness ==
    /\ source = OneLine(<<Tok_anon5, Tok_bogus, Tok_anon5>>)
    /\ pos = 1
    /\ Len(ranges) = 1
    /\ ranges[1].properties = <<Anon(5), Anon(5)>>

\* C6: a line whose read fails ends the load at that line with an I/O
\* failure and without a Map, the ranges of the earlier lines included;
\* nothing but an I/O failure makes the load fail.
C6_IoFailureAborts ==
    /\ ret = "Err" => (~source.exists \/ (pos >= 1 /\ source.reads[pos].err))
    /\ ret = "Err" => (pc = "returned" /\ map = <<>> /\ ranges = <<>> /\ lastCall = 0)
    /\ \A k \in 1..pos : source.reads[k].err => (k = pos /\ ret = "Err")
    /\ ret = "Ok" => \A k \in 1..Len(source.reads) : ~source.reads[k].err

\* C6's case: the first line gave a Range, the read of the second failed,
\* a third line was never read, and no Map was returned.
C6_Witness ==
    /\ Len(source.reads) = 3
    /\ source.reads[1] = ReadOk(Line_Third)
    /\ source.reads[2] = ReadErr
    /\ pos = 2
    /\ ret = "Err"
    /\ map = <<>>
    /\ ranges = <<>>

\* C7: a second normalize call right after one on the same Range changes
\* nothing, so no count is scaled twice.
C7_SecondCallNoOp ==
    [][\A i \in 1..Len(map) :
          (NormalizeStep(i) /\ lastCall = i) => (map' = map /\ pc' = pc)]_vars

\* C7's case: "7f default anon=5 kernelpagesize_kB=4 mapmax=3" after two
\* calls holds the bytes of the first call.
C7_Witness ==
    /\ source = OneLine(<<Tok_anon5, Tok_kps4, Tok_mapmax3>>)
    /\ lastCall = 1
    /\ streak = 2
    /\ map[1].properties = <<Anon(5 * 4096), MapMax(3)>>

\* C8 (as claimed): after normalize on a Range with a Kernelpagesize entry
\* the list is sorted, and every reordering of the list normalizes to an
\* equal list.
C8_OrderIndependent ==
    [][\A i \in 1..Len(map) :
          (NormalizeStep(i) /\ HasPageSize(map[i].properties)) =>
              /\ IsSorted(map'[i].properties)
              /\ \A q \in Reorderings(map[i].properties) :
                    ListEq(RangeNormalize([map[i] EXCEPT !.properties = q],
                                          overflowChecks).range.properties,
                           map'[i].properties)]_vars

\* C8 (amended): the same, for the reorderings whose first Kernelpagesize
\* entry carries the same page size.
C8_OrderIndependentSamePageSize ==
    [][\A i \in 1..Len(map) :
          (NormalizeStep(i) /\ HasPageSize(map[i].properties)) =>
              /\ IsSorted(map'[i].properties)
              /\ \A q \in Reorderings(map[i].properties) :
                    FirstPageSize(q) = FirstPageSize(map[i].properties) =>
                        ListEq(RangeNormalize([map[i] EXCEPT !.properties = q],
                                              overflowChecks).range.properties,
                               map'[i].properties)]_vars

\* C8's case: "7f default anon=5 N0=5 kernelpagesize_kB=4" was normalized,
\* and N now precedes Anon.
C8_Witness ==
    /\ source = OneLine(<<Tok_anon5, Tok_N0_5, Tok_kps4>>)
    /\ lastCall = 1
    /\ map[1].properties = <<N(0, 5 * 4096), Anon(5 * 4096)>>

\* C9 (as claimed): with more than one Kernelpagesize entry, normalize
\* removes the first and every later one is still in the list.
C9_LaterPageSizesKept ==
    [][\A i \in 1..Len(map) :
          (NormalizeStep(i) /\ PageSizeCount(map[i].properties) >= 2) =>
              PageSizeCount(map'[i].properties)
                  = PageSizeCount(map[i].properties) - 1]_vars

\* C9 (amended): with more than one Kernelpagesize entry, no Kernelpagesize
\* entry is left after normalize, and the counts of a call that returns are
\* scaled by the page size of the first.
C9_AllPageSizesRemoved ==
    [][\A i \in 1..Len(map) :
          (NormalizeStep(i) /\ PageSizeCount(map[i].properties) >= 2) =>
              /\ ~HasPageSize(map'[i].properties)
              /\ pc' # "panicked" =>
                    LET P == FirstPageSize(map[i].properties)
                        kept == NonPageSize(map[i].properties)
                    IN  SameBag(map'[i].properties,
                                [k \in 1..Len(kept) |-> TimesWrapped(kept[k], P)])]_vars

\* C9's case: "7f default anon=5 kernelpagesize_kB=4 kernelpagesize_kB=8"
\* was normalized: 5 pages of 4096 bytes, and neither page size is left.
C9_Witness ==
    /\ source = OneLine(<<Tok_anon5, Tok_kps4, Tok_kps8>>)
    /\ lastCall = 1
    /\ map[1].properties = <<Anon(5 * 4096)>>

\* C10 (as claimed): normalize has no failure path: no call aborts, whatever
\* the counts and the page size.
C10_NeverAborts == pc # "panicked"

=============================================================================
